---- MODULE Spec2Model ----
(***************************************************************************)
(* Model of the signal-to-order pipeline of app/main.py: the /webhook      *)
(* handler (ENTRY / EXIT alerts), the manual /open-position handler, the    *)
(* admin /close/{trade_id} handler, the rotation helper and the `trades`    *)
(* table they share.  Every handler is an asyncio coroutine: it runs        *)
(* atomically between two awaits that touch shared state (the database or   *)
(* the exchange), and any other handler may run in between.                 *)
(***************************************************************************)
EXTENDS Integers, Sequences, FiniteSets, TLC

\* ------------------------------------------------------------------ bounds
NumRequests == 2
NumSignals == 3
MaxClients == 1
MaxPineIndex == 1

Requests == 1..NumRequests
Symbols == {"BTCUSDT"}
Directions == {"long", "short"}
Tokens == {"LONG", "SHORT", "BUY", "SELL", "FOO"}
SharedId == 0
NoId == -1
NoPine == -1
NoPrice == 0
NoSize == -1
Sizes == {0, 2}
SnapshotSize == 2
NoKey == <<"", "">>

VARIABLES
    dryRun,       \* BITGET_DRY_RUN is one of 1/true/yes/on
    credentials,  \* BITGET_API_KEYS, BITGET_SECRETS, BITGET_PASSPHRASES are set
    backend,      \* engine.url.get_backend_name(): "sqlite" or "postgresql"
    trades,       \* the trades table, in insertion (created_at) order
    pc,           \* per request: the await the coroutine is suspended at
    loc,          \* per request: the local variables of the coroutine
    hist,         \* per request: what the coroutine did, in order
    outcome,      \* per request: how the HTTP request ended
    clients,      \* connected_websockets: TRUE for a socket that still accepts a send
    lookup,       \* one call of get_market_price_with_retries and what its caller does
    casts,        \* calls of broadcast that run send by send, and the sockets they serve
    sizing        \* one request's size: payload fields, computed_size, order and record

vars == <<dryRun, credentials, backend, trades, pc, loc, hist, outcome, clients, lookup, casts, sizing>>

\* ------------------------------------------------------------ the ledger
Ids == {trades[i].id : i \in DOMAIN trades}
IndexOf(id) == CHOOSE i \in DOMAIN trades : trades[i].id = id
Row(id) == trades[IndexOf(id)]

SignalOf(dir) == IF dir = "long" THEN "LONG" ELSE "SHORT"
DirOfSignal(sig) == IF sig = "LONG" THEN "long" ELSE IF sig = "SHORT" THEN "short" ELSE "none"

\* trades.select().where(status == "placed" and symbol == sym), table order
PlacedIdx(sym) == {i \in DOMAIN trades : trades[i].status = "placed" /\ trades[i].symbol = sym}

RECURSIVE SeqOfSet(_)
SeqOfSet(S) == IF S = {} THEN <<>>
               ELSE LET m == CHOOSE x \in S : \A y \in S : x <= y
                    IN <<m>> \o SeqOfSet(S \ {m})

PlacedRows(sym) == [k \in 1..Cardinality(PlacedIdx(sym)) |-> trades[SeqOfSet(PlacedIdx(sym))[k]].id]

\* the unique index on reservation_key exists only on the SQLite backend
UniqueIndex == backend = "sqlite"

\* ------------------------------------------------- what the exchange says
\* fetch_bitget_position: "none" is the Python None (dry-run, no credentials,
\* a failed or empty query); "zero" is a snapshot whose size is 0; "long" and
\* "short" are snapshots with size > 0 on that side.
Snapshots == {"none", "zero", "long", "short"}
FetchResults == IF dryRun \/ ~credentials THEN {"none"} ELSE Snapshots

\* what the exchange answers to one POST of place_demo_order: (transport
\* status, provider code), "" being a body without a code/status field, or a
\* transport error (the exception of client.post)
TransportError == <<0, "exception">>
ExchangeAnswers == {<<200, "00000">>, <<200, "40774">>, <<200, "">>, <<400, "">>,
                    <<404, "">>, TransportError}
NoReply == <<0, "">>

\* the candidate endpoints of place_demo_order: one URL for an open, one for
\* a close
NumCandidates == 1
AnswerSeqs == [1..NumCandidates -> ExchangeAnswers]

\* fault: the answer of the first candidate is final even when it is a 404
TryFirstCandidateOnly(answers, i) ==
    IF i > Len(answers) THEN [reply |-> <<502, "">>, asked |-> <<>>]
    ELSE [reply |-> answers[i], asked |-> <<answers[i]>>]

\* the loop over the candidates from candidate i on: the reply returned and
\* the answers received on the way
RECURSIVE TryCandidates(_, _)
TryCandidates(answers, i) ==
    IF i > Len(answers) THEN [reply |-> <<502, "">>, asked |-> <<>>]
    ELSE IF answers[i] = TransportError \/ answers[i][1] = 404
         THEN LET rest == TryCandidates(answers, i + 1)
              IN [reply |-> rest.reply, asked |-> <<answers[i]>> \o rest.asked]
         ELSE [reply |-> answers[i], asked |-> <<answers[i]>>]

\* fault: without credentials the placement is simulated as in dry-run
PlaceDemoOrderSimulated(dry, creds, answers) ==
    IF dry \/ ~creds THEN [reply |-> <<200, "00000">>, asked |-> <<>>]
    ELSE TryCandidates(answers, 1)

\* place_demo_order: simulated success in dry-run, 400 without credentials,
\* the candidates otherwise
PlaceDemoOrder(dry, creds, answers) ==
    IF dry THEN [reply |-> <<200, "00000">>, asked |-> <<>>]
    ELSE IF ~creds THEN [reply |-> <<400, "">>, asked |-> <<>>]
    ELSE TryCandidates(answers, 1)

\* place_demo_order for a close-positions request
CloseReplies == {"ok", "reduceonly_err", "other_err"}
CloseResults == IF dryRun \/ credentials THEN CloseReplies ELSE {"other_err"}

Prices == {50000}

\* fetch_market_price: the Binance ticker is asked first, the exchange's own
\* mix and spot tickers when it gives no price; none: no ticker gave a price
Tickers ==
    {[src |-> s, price |-> p] : s \in {"binance", "exchange"}, p \in Prices}
    \cup {[src |-> "none", price |-> NoPrice]}

\* ----------------------------------------------------------------- sizing
\* sizes are counted in thousandths of a contract: 0.001 is 1
MinSize == 1
DefaultOrderSize == 1
SizeScale == 1000

\* the payload's size and size_usd: absent (NoSize) or a number
Quantities == {NoSize, 2}
Notionals == {NoSize, 100}

\* the size before the minimum is enforced: float(size), else usd / p
RawSize(qty, usd, ref) ==
    IF qty # NoSize THEN qty
    ELSE IF usd # NoSize /\ ref # NoPrice THEN (usd * SizeScale) \div ref
    ELSE NoSize

\* fault: the minimum contract size is not enforced
ComputedSizeUnclamped(qty, usd, ref) == RawSize(qty, usd, ref)

\* webhook, computed_size: the payload's size, else size_usd / p where p is
\* the payload's price or the looked-up one (ref; NoPrice when neither gave a
\* price: the HTTPException raised there is caught by the except around it),
\* raised to the minimum contract size
ComputedSize(qty, usd, ref) ==
    LET c == RawSize(qty, usd, ref)
    IN IF c # NoSize /\ c < MinSize THEN MinSize ELSE c

\* fault: the record is written without its size
RecordSizeZero(computed) == 0

\* resolve_trade_dimensions: the size stored in the record
RecordSize(computed) == IF computed = NoSize THEN 0 ELSE computed

\* construct_bitget_payload: the size put in the order
OrderSize(computed) == IF computed = NoSize THEN DefaultOrderSize ELSE computed

\* --------------------------------------------------------- pure decisions
\* webhook, DB fallback: most recent placed record of the symbol
DbBelieved(sym) ==
    IF PlacedIdx(sym) = {} THEN [dir |-> "none", size |-> NoSize]
    ELSE LET i == CHOOSE k \in PlacedIdx(sym) : \A j \in PlacedIdx(sym) : j <= k
         IN [dir |-> DirOfSignal(trades[i].signal),
             size |-> IF trades[i].size > 0 THEN trades[i].size ELSE NoSize]

\* fault: a placed record of the ledger overrides the snapshot
BelievedLedgerFirst(snap, sym) ==
    IF PlacedIdx(sym) # {} THEN DbBelieved(sym)
    ELSE IF snap \in {"long", "short"} THEN [dir |-> snap, size |-> SnapshotSize]
    ELSE [dir |-> "none", size |-> NoSize]

\* webhook position oracle: snapshot first, ledger only when there is no
\* normalized snapshot at all
Believed(snap, sym) ==
    IF snap \in {"long", "short"} THEN [dir |-> snap, size |-> SnapshotSize]
    ELSE IF snap = "zero" THEN [dir |-> "none", size |-> NoSize]
    ELSE DbBelieved(sym)

\* fault: a same-direction signal is not ignored
DecideNeverIgnores(cd, cs, intended) ==
    IF cd # "none" /\ cd # intended /\ cs # NoSize /\ cs > 0 THEN "rotate"
    ELSE IF cd # "none" /\ cs = NoSize THEN "typeerror"
    ELSE "open"

\* webhook, test of the upper-cased signal token: BUY/SELL are refused as
\* aliases, every other token than LONG/SHORT as unknown
SignalClass(token) ==
    IF token \in {"BUY", "SELL"} THEN "alias"
    ELSE IF token \notin {"LONG", "SHORT"} THEN "unknown"
    ELSE "accepted"

\* webhook, the signal that is tested: the signal/action field of the
\* payload, and the name of the event when the payload carries neither
RawSignal(signal, event) == IF signal = "" THEN event ELSE signal

\* webhook, intended direction of a signal that passed the token test
IntendedDirection(token) ==
    IF token \in {"BUY", "LONG"} THEN "long"
    ELSE IF token \in {"SELL", "SHORT"} THEN "short"
    ELSE "none"

\* webhook decision between rotate, ignore and open
Decide(cd, cs, intended) ==
    IF cd # "none" /\ cd # intended /\ cs # NoSize /\ cs > 0 THEN "rotate"
    ELSE IF cd # "none" /\ cs = NoSize THEN "typeerror"
    ELSE IF cd # "none" /\ cd = intended /\ cs > 0 THEN "ignore"
    ELSE "open"

\* max(pine_trade_index) over the records of the symbol
ExistingMaxPine(sym) ==
    LET S == {trades[i].pine_trade_index : i \in {k \in DOMAIN trades :
                 trades[k].symbol = sym /\ trades[k].pine_trade_index # NoPine}}
    IN IF S = {} THEN NoPine ELSE CHOOSE m \in S : \A x \in S : x <= m

StalePine(pine, sym) ==
    pine # NoPine /\ ExistingMaxPine(sym) # NoPine /\ pine < ExistingMaxPine(sym)

\* the insert of the received record fails on the primary key, or on the
\* unique index on reservation_key where that index exists
InsertRejected(id, key) ==
    \/ id \in Ids
    \/ UniqueIndex /\ key # NoKey /\ \E i \in DOMAIN trades : trades[i].reservation_key = key

\* is_success of webhook and open_position
IsSuccess(reply) == reply[1] = 200 /\ (reply[2] = "" \/ reply[2] = "00000")

\* fault: the rotation goes on to open after a failed close
RotationNeverAborts(failed) == FALSE

\* the rotation gives up when one close failed
RotationAborts(failed) == failed # {}

\* fault: the rotation closes a row without an exit price
RotationExitMissing(size, price) == NoPrice

\* exit price the rotation writes on a closed row
RotationExit(size, price) == IF size # 0 THEN price ELSE NoPrice

\* ---------------------------------------------------------- ledger writes
NewRow(id, dir, sym, status, key, pine, size) ==
    [id |-> id, signal |-> SignalOf(dir), symbol |-> sym, status |-> status,
     reservation_key |-> key, pine_trade_index |-> pine, size |-> size,
     exit_price |-> NoPrice, realized_pnl |-> FALSE, response |-> ""]

\* trades.update().where(id == id).values(status=..., reservation_key=None)
SetStatus(t, id, st) ==
    [i \in DOMAIN t |-> IF t[i].id = id
                        THEN [t[i] EXCEPT !.status = st, !.reservation_key = NoKey]
                        ELSE t[i]]

\* what the response text handed back by place_demo_order is: the body of
\* the exchange's answer as received (provider), or a text that the gateway
\* made up itself (simulated success, missing credentials, no endpoint left)
ResponseKind(reply, asked) ==
    IF asked # <<>> /\ reply = asked[Len(asked)] THEN "provider" ELSE "gateway"

\* fault: the record keeps the parsed and re-encoded response
StoredResponseReencoded(kind) == "reencoded"

\* values(response=resp_text): the text is stored as it came
StoredResponse(kind) == kind

\* fault: the update of the outcome leaves the reservation key in place
StatusUpdateKeepsKey(t, id, st, resp) ==
    [i \in DOMAIN t |-> IF t[i].id = id
                        THEN [t[i] EXCEPT !.status = st, !.response = resp]
                        ELSE t[i]]

\* trades.update().where(id == id).values(status=..., response=...,
\* reservation_key=None)
StatusUpdate(t, id, st, resp) ==
    [i \in DOMAIN t |-> IF t[i].id = id
                        THEN [t[i] EXCEPT !.status = st, !.response = resp,
                                          !.reservation_key = NoKey]
                        ELSE t[i]]

\* trades.update().where(id == id).values(status="closed", [exit_price,
\* realized_pnl,] [reservation_key=None])
SetClosed(t, id, exit, clearKey) ==
    [i \in DOMAIN t |-> IF t[i].id = id
                        THEN [t[i] EXCEPT !.status = "closed",
                                          !.exit_price = IF exit # NoPrice THEN exit ELSE @,
                                          !.realized_pnl = IF exit # NoPrice THEN TRUE ELSE @,
                                          !.reservation_key = IF clearKey THEN NoKey ELSE @]
                        ELSE t[i]]

\* close_existing_bitget_position: a1, a2 are the exchange's replies to the
\* reduceOnly attempt and to the retry, snap the snapshot read after a failed
\* close, mkt the market price (NoPrice: unavailable)
CloseSubmissions(dry, creds, a1) ==
    IF dry \/ ~creds THEN 0 ELSE IF a1 = "reduceonly_err" THEN 2 ELSE 1

CloseAccepted(a1, a2) == a1 = "ok" \/ (a1 = "reduceonly_err" /\ a2 = "ok")

\* fault: a close that no snapshot contradicts is taken as done
CloseOkUnlessOpen(dry, a1, a2, snap) == dry \/ CloseAccepted(a1, a2) \/ snap \in {"zero", "none"}

CloseOk(dry, a1, a2, snap) == dry \/ CloseAccepted(a1, a2) \/ snap = "zero"

CloseExisting(t, id, dry, a1, a2, snap, mkt) ==
    IF dry THEN SetClosed(t, id, mkt, FALSE)
    ELSE IF CloseAccepted(a1, a2) THEN SetClosed(t, id, mkt, TRUE)
    ELSE IF snap = "zero" THEN SetClosed(t, id, NoPrice, TRUE)
    ELSE t

RECURSIVE Repeat(_, _)
Repeat(e, n) == IF n = 0 THEN <<>> ELSE <<e>> \o Repeat(e, n - 1)

\* the close looks the market price up in dry-run and after an accepted close
PriceLookup(dry, a1, a2) == dry \/ CloseAccepted(a1, a2)

\* what a close leaves in the history of the request: the close-positions
\* submissions, and the request to the exchange's ticker when the lookup
\* gets past the Binance ticker
CloseEvents(dry, creds, a1, a2, snap, tick) ==
    <<"gw_close">> \o Repeat("submit_close", CloseSubmissions(dry, creds, a1))
    \o (IF PriceLookup(dry, a1, a2) /\ tick.src # "binance" THEN <<"ask_ticker">> ELSE <<>>)
    \o (IF dry \/ CloseAccepted(a1, a2) THEN <<>>
        ELSE IF snap = "zero" THEN <<"snap_flat">> ELSE <<"snap_not_flat">>)

\* cancel_orders_for_symbol: returns at once in dry-run and without
\* credentials; otherwise the body reads local_product, a name that is bound
\* only inside construct_bitget_payload and debug_payload, before the request
\* is built: the NameError is caught and printed, no request is sent
CancelOrdersForSymbol(dry, creds) ==
    IF dry \/ ~creds THEN <<>> ELSE <<"cancel_failed">>

\* ------------------------------------------------------------------ Init
\* a Python float or None: PriceNone is None, 0 is 0.0
PriceNone == -1
InitLookup == [stage |-> "loop", i |-> 0, last |-> PriceNone, slept |-> 0,
               fetched |-> <<>>, result |-> PriceNone, caller |-> "", taken |-> FALSE]

\* broadcast seen send by send: connected_websockets as a list of sockets,
\* the state of each socket's peer, and per call of broadcast the position of
\* its loop, its list living and the client whose send_text it awaits; sent
\* and whole keep, per call, the sockets a send reached and the sockets that
\* stayed connected since the call began
NumSockets == 2
NumCasts == 2
Sockets == 1..NumSockets
Casts == 1..NumCasts
IdleCast == [stage |-> "idle", i |-> 0, living |-> <<>>, client |-> 0]
InitCasts ==
    [connected_websockets |-> <<>>,
     peer  |-> [s \in Sockets |-> "new"],
     call  |-> [c \in Casts |-> IdleCast],
     sent  |-> [c \in Casts |-> <<>>],
     whole |-> [c \in Casts |-> {}]]

\* the size of one opening request followed from the payload to the order and
\* to the record
InitSizing ==
    [stage |-> "idle", path |-> "", qty |-> NoSize, usd |-> NoSize, ref |-> NoPrice,
     computed |-> NoSize, order |-> NoSize, record |-> NoSize]

InitLoc == [kind |-> "none", token |-> "", dir |-> "none", symbol |-> "", tid |-> NoId,
            pine |-> NoPine, price |-> NoPrice, size |-> NoSize, order_size |-> NoSize,
            cur_dir |-> "none", cur_size |-> NoSize,
            rows |-> <<>>, fetched |-> <<>>, failed |-> {}, reply |-> NoReply, asked |-> <<>>,
            overlapped |-> FALSE]

\* in dry-run every gateway function returns before it reads the credentials:
\* dry-run is modelled with the credentials unset
Init ==
    /\ dryRun \in BOOLEAN
    /\ credentials \in (IF dryRun THEN {FALSE} ELSE BOOLEAN)
    /\ backend \in {"sqlite", "postgresql"}
    /\ trades = <<>>
    /\ pc = [r \in Requests |-> "idle"]
    /\ loc = [r \in Requests |-> InitLoc]
    /\ hist = [r \in Requests |-> <<>>]
    /\ outcome = [r \in Requests |-> "none"]
    /\ clients = <<>>
    /\ lookup = InitLookup
    /\ casts = InitCasts
    /\ sizing = InitSizing

\* requests are numbered in their order of arrival
Arrives(r) == pc[r] = "idle" /\ \A q \in Requests : q < r => pc[q] # "idle"

\* some other request is being handled
OthersInFlight(r) == \E q \in Requests \ {r} : pc[q] \notin {"idle", "done"}

\* ------------------------------------------------------------ broadcast
BroadcastEvents == {"bc_ignored", "bc_received", "bc_placed", "bc_error", "bc_closed", "bc_signal"}

\* the events hold a call of broadcast
Pushes(events) == \E i \in DOMAIN events : events[i] \in BroadcastEvents

\* fault: the exception of a failed send_text leaves broadcast
BroadcastRaising(cl) ==
    [living |-> SelectSeq(cl, LAMBDA c : c),
     raised |-> \E i \in DOMAIN cl : ~cl[i]]

\* broadcast: every send_text is in a try block of its own, the clients whose
\* send failed are dropped from connected_websockets, nothing is raised
Broadcast(cl) ==
    [living |-> SelectSeq(cl, LAMBDA c : c),
     raised |-> FALSE]

PushFailed(events) == Pushes(events) /\ \E i \in DOMAIN clients : ~clients[i]
PushRaised(events) == Pushes(events) /\ Broadcast(clients).raised
PushTrace(events) ==
    (IF PushFailed(events) THEN <<"push_failed">> ELSE <<>>)
    \o (IF PushRaised(events) THEN <<"push_raised">> ELSE <<>>)

Finish(r, result, events) ==
    /\ pc' = [pc EXCEPT ![r] = "done"]
    /\ outcome' = [outcome EXCEPT ![r] = IF PushRaised(events) THEN "error500" ELSE result]
    /\ hist' = [hist EXCEPT ![r] = @ \o events \o PushTrace(events)]
    /\ clients' = IF Pushes(events) THEN Broadcast(clients).living ELSE clients
    /\ UNCHANGED <<lookup, casts, sizing>>

Goto(r, label, events) ==
    IF PushRaised(events)
    THEN Finish(r, "error500", events)
    ELSE /\ pc' = [pc EXCEPT ![r] = label]
         /\ hist' = [hist EXCEPT ![r] = @ \o events \o PushTrace(events)]
         /\ clients' = IF Pushes(events) THEN Broadcast(clients).living ELSE clients
         /\ UNCHANGED <<outcome, lookup, casts, sizing>>

\* ------------------------------------------------------- POST /webhook
\* the event field of the alert; "" is an alert without one
Events == {"ENTRY", "SIGNAL", "ENTRY_FALLBACK", "EXIT", "CLOSE", ""}

\* fault: ENTRY_FALLBACK alerts are executed like ENTRY alerts
EventBranchFallbackExecutes(event) ==
    IF event = "SIGNAL" THEN "signal"
    ELSE IF event = "EXIT" THEN "exit"
    ELSE IF event \notin {"ENTRY", "ENTRY_FALLBACK"} THEN "log"
    ELSE "entry"

\* the branch of the webhook that handles the alert: SIGNAL and
\* ENTRY_FALLBACK are tested first, then EXIT, then everything that is not
\* ENTRY
EventBranch(event) ==
    IF event \in {"SIGNAL", "ENTRY_FALLBACK"} THEN "signal"
    ELSE IF event = "EXIT" THEN "exit"
    ELSE IF event # "ENTRY" THEN "log"
    ELSE "entry"

\* the duplicate test of the SIGNAL branch
SignalDuplicate(cd, cs, intended) == cd = intended /\ cs # NoSize /\ cs > 0

\* BUY/SELL and every other token that is not LONG or SHORT
WebhookRejectSignal(r) ==
    /\ Arrives(r)
    /\ \E token \in Tokens :
          /\ SignalClass(token) # "accepted"
          /\ loc' = [loc EXCEPT ![r].kind = "unknown_signal", ![r].token = token]
    /\ Finish(r, "ignored", <<"bc_ignored">>)
    /\ UNCHANGED <<dryRun, credentials, backend, trades>>

\* no price in the payload and none from the price lookup
WebhookPriceUnavailable(r) ==
    /\ Arrives(r)
    /\ \E token \in {"LONG", "SHORT"} :
          loc' = [loc EXCEPT ![r].kind = "no_price"]
    /\ Finish(r, "error502", <<>>)
    /\ UNCHANGED <<dryRun, credentials, backend, trades>>

\* event == "EXIT"
WebhookExit(r) ==
    /\ Arrives(r)
    /\ \E event \in Events, signal \in {"", "LONG"}, id \in Ids \cup {SharedId, NoId} :
          /\ EventBranch(event) = "exit"
          /\ IF SignalClass(RawSignal(signal, event)) # "accepted"
             THEN /\ loc' = [loc EXCEPT ![r].kind = "unknown_signal",
                                        ![r].token = RawSignal(signal, event), ![r].tid = id]
                  /\ trades' = trades
                  /\ Finish(r, "ignored", <<"bc_ignored">>)
             ELSE /\ loc' = [loc EXCEPT ![r].kind = "exit", ![r].tid = id]
                  /\ IF id # NoId
                     THEN /\ trades' = SetStatus(trades, id, "closed")
                          /\ Finish(r, "ok", <<"db_closed", "bc_closed">>)
                     ELSE /\ trades' = trades
                          /\ Finish(r, "ok", <<>>)
    /\ UNCHANGED <<dryRun, credentials, backend>>

\* a payload that is neither ENTRY nor EXIT nor SIGNAL/ENTRY_FALLBACK: with an
\* explicit LONG/SHORT signal and some other event, or with no signal, action
\* or event at all (token ""), it is logged as a record of status signal; the
\* payloads drawn here carry no size
WebhookLogOnly(r) ==
    /\ Arrives(r)
    /\ \E token \in {"", "LONG", "SHORT"}, sym \in Symbols, event \in Events :
          /\ EventBranch(event) = "log"
          /\ token = "" => event = ""
          /\ loc' = [loc EXCEPT ![r] = [@ EXCEPT !.kind = IF token = "" THEN "no_direction" ELSE "log_only",
                                                  !.symbol = sym, !.tid = r]]
          /\ trades' = Append(trades, [NewRow(r, "long", sym, "signal", NoKey, NoPine, 0)
                                          EXCEPT !.signal = token])
          /\ Finish(r, "ok", <<"insert", "bc_signal">>)
    /\ UNCHANGED <<dryRun, credentials, backend>>

\* event SIGNAL or ENTRY_FALLBACK with signal LONG or SHORT: the alert is
\* ignored when the oracle shows a position of its direction, and logged as
\* a record of status signal otherwise
WebhookSignal(r) ==
    /\ Arrives(r)
    /\ \E token \in {"LONG", "SHORT"}, sym \in Symbols, snap \in FetchResults, event \in Events :
          /\ EventBranch(event) = "signal"
          /\ LET b == Believed(snap, sym)
             IN IF SignalDuplicate(b.dir, b.size, IntendedDirection(token))
                THEN /\ loc' = [loc EXCEPT ![r] = [@ EXCEPT !.kind = "signal_dup",
                                                            !.symbol = sym, !.tid = r]]
                     /\ trades' = trades
                     /\ Finish(r, "ignored", <<"bc_ignored">>)
                ELSE /\ loc' = [loc EXCEPT ![r] = [@ EXCEPT !.kind = "log_only",
                                                            !.symbol = sym, !.tid = r]]
                     /\ trades' = Append(trades, [NewRow(r, "long", sym, "signal", NoKey, NoPine, 0)
                                                     EXCEPT !.signal = token])
                     /\ Finish(r, "ok", <<"insert", "bc_signal">>)
    /\ UNCHANGED <<dryRun, credentials, backend>>

\* event == "ENTRY" with signal LONG or SHORT: up to the decision
WebhookEntry(r) ==
    /\ Arrives(r)
    /\ \E token \in Tokens, sym \in Symbols,
          price \in Prices, snap \in FetchResults, event \in Events :
          /\ SignalClass(token) = "accepted"
          /\ EventBranch(event) = "entry"
          /\ LET dir == IntendedDirection(token)
                 b == Believed(snap, sym)
                 d == Decide(b.dir, b.size, dir)
             IN /\ loc' = [loc EXCEPT ![r] = [@ EXCEPT !.kind = IF event = "ENTRY" THEN "entry" ELSE "not_entry",
                              !.token = token,
                              !.dir = dir, !.symbol = sym, !.tid = r, !.price = price,
                              !.cur_dir = b.dir, !.cur_size = b.size,
                              !.overlapped = OthersInFlight(r)]]
                /\ CASE d = "rotate" -> Goto(r, "rot_fetch", <<>>)
                     [] d = "typeerror" -> Finish(r, "error500", <<>>)
                     [] d = "ignore" -> Finish(r, "ignored", <<"bc_ignored">>)
                     [] OTHER -> Goto(r, "pine", <<>>)
    /\ UNCHANGED <<dryRun, credentials, backend, trades>>


\* close_open_positions_for_rotation: the placed rows of the symbol
RotateFetch(r) ==
    /\ pc[r] = "rot_fetch"
    /\ LET rows == PlacedRows(loc[r].symbol)
       IN /\ loc' = [loc EXCEPT ![r].rows = rows, ![r].fetched = rows]
          /\ IF rows = <<>>
             THEN Goto(r, "pine", <<>>)
             ELSE Goto(r, "rot_close", <<>>)
    /\ UNCHANGED <<dryRun, credentials, backend, trades>>

\* one turn of the loop over closing_rows; after the last row the webhook
\* either aborts with 502 or goes on to open
RotateCloseRow(r) ==
    /\ pc[r] = "rot_close"
    /\ loc[r].rows # <<>>
    /\ \E a1 \in CloseResults, a2 \in CloseResults, snap \in FetchResults,
          tick \in Tickers :
          LET id == Head(loc[r].rows)
              rest == Tail(loc[r].rows)
              ok == CloseOk(dryRun, a1, a2, snap)
              size == IF id \in Ids THEN Row(id).size ELSE 0
              t1 == CloseExisting(trades, id, dryRun, a1, a2, snap, tick.price)
              t2 == IF ok THEN SetClosed(t1, id, RotationExit(size, loc[r].price), TRUE) ELSE t1
              failed == IF ok THEN loc[r].failed ELSE loc[r].failed \cup {id}
              ev == CloseEvents(dryRun, credentials, a1, a2, snap, tick)
                    \o (IF ok THEN <<"db_closed", "bc_closed">> ELSE <<>>)
                    \o (IF rest = <<>>
                        THEN <<"gw_cancel">> \o CancelOrdersForSymbol(dryRun, credentials)
                        ELSE <<>>)
          IN /\ trades' = t2
             /\ loc' = [loc EXCEPT ![r].rows = rest, ![r].failed = failed]
             /\ IF rest # <<>> THEN Goto(r, "rot_close", ev)
                ELSE IF RotationAborts(failed)
                     THEN Finish(r, "close_failed", ev \o <<"bc_error">>)
                     ELSE Goto(r, "pine", ev)
    /\ UNCHANGED <<dryRun, credentials, backend>>

\* the stale Pine trade index test; the payload's pine_trade_index and size
\* are first read here and at the insert, and are drawn where they are read
PineCheck(r) ==
    /\ pc[r] = "pine"
    /\ \E pine \in {NoPine} \cup (0..MaxPineIndex) :
          /\ loc' = [loc EXCEPT ![r].pine = pine]
          /\ IF StalePine(pine, loc[r].symbol)
             THEN Finish(r, "ignored", <<"bc_ignored">>)
             ELSE Goto(r, "reserve", <<>>)
    /\ UNCHANGED <<dryRun, credentials, backend, trades>>

\* fault: the webhook goes on to place without inserting the received record
ReserveSkipped(r) ==
    /\ pc[r] = "reserve"
    /\ Goto(r, "place", <<>>)
    /\ UNCHANGED <<dryRun, credentials, backend, trades, loc>>

\* the insert of the received record with its reservation key
Reserve(r) ==
    /\ pc[r] = "reserve"
    /\ LET key == <<loc[r].symbol, loc[r].dir>>
       IN \/ \E id \in {loc[r].tid} \cup Ids :
                /\ InsertRejected(id, key)
                /\ trades' = trades
                /\ Finish(r, "ignored", <<"bc_ignored">>)
                /\ loc' = [loc EXCEPT ![r].tid = id]
          \/ /\ ~InsertRejected(loc[r].tid, key)
             /\ \E qty \in Quantities, usd \in Notionals, ref \in {NoPrice, loc[r].price} :
               LET computed == ComputedSize(qty, usd, ref)
               IN /\ trades' = Append(trades, NewRow(loc[r].tid, loc[r].dir, loc[r].symbol,
                                            "received", key, loc[r].pine, RecordSize(computed)))
                  /\ loc' = [loc EXCEPT ![r].size = computed]
                  /\ Goto(r, "place", <<"reserve", "bc_received">>)
    /\ UNCHANGED <<dryRun, credentials, backend>>

\* place_demo_order for the open, with size=computed_size
Place(r) ==
    /\ pc[r] = "place"
    /\ \E answers \in AnswerSeqs :
          LET res == PlaceDemoOrder(dryRun, credentials, answers)
          IN /\ loc' = [loc EXCEPT ![r].reply = res.reply, ![r].asked = res.asked,
                                   ![r].order_size = OrderSize(loc[r].size)]
             /\ Goto(r, "update", <<"gw_open">> \o Repeat("submit_open", Len(res.asked)))
    /\ UNCHANGED <<dryRun, credentials, backend, trades>>

\* the status update after the placement; dbok1 is the update in the try
\* block, dbok2 the one in the except block
UpdateStatus(r) ==
    /\ pc[r] = "update"
    /\ \E dbok1 \in BOOLEAN, dbok2 \in BOOLEAN :
          LET good == IsSuccess(loc[r].reply)
              first == <<"release", IF good THEN "bc_placed" ELSE "bc_error">>
              resp_text == StoredResponse(ResponseKind(loc[r].reply, loc[r].asked))
              updated == StatusUpdate(trades, loc[r].tid, IF good THEN "placed" ELSE "error", resp_text)
          IN IF dbok1 /\ ~PushRaised(first)
             THEN /\ trades' = updated
                  /\ Finish(r, IF good THEN "ok" ELSE "rejected", first)
             ELSE IF dbok1
             THEN /\ trades' = IF dbok2 THEN StatusUpdate(updated, loc[r].tid, "error", "exception")
                                         ELSE updated
                  /\ Finish(r, "error500",
                            first \o (IF dbok2 THEN <<"release", "bc_error">> ELSE <<>>))
             ELSE IF dbok2
             THEN /\ trades' = StatusUpdate(trades, loc[r].tid, "error", "exception")
                  /\ Finish(r, "error500", <<"db_error", "release", "bc_error">>)
             ELSE /\ trades' = trades
                  /\ Finish(r, "error500", <<"db_error">>)
    /\ loc' = [loc EXCEPT ![r].reply = NoReply, ![r].asked = <<>>]
    /\ UNCHANGED <<dryRun, credentials, backend>>

\* the coroutine is cancelled while it awaits the placement or the update:
\* CancelledError is not an Exception, no handler of the webhook catches it
HandlerCancelled(r) ==
    /\ pc[r] \in {"place", "update"}
    /\ Finish(r, "cancelled", <<>>)
    /\ UNCHANGED <<dryRun, credentials, backend, trades, loc>>

\* -------------------------------------------------- POST /open-position
\* position seen by the manual open: the ledger in dry-run (any placed row of
\* the symbol may come first, the query has no ORDER BY), the exchange
\* snapshot alone otherwise
ManualBelieved(snap, sym) ==
    IF dryRun
    THEN {[dir |-> DirOfSignal(trades[i].signal), size |-> SnapshotSize] : i \in PlacedIdx(sym)}
         \cup (IF PlacedIdx(sym) = {} THEN {[dir |-> "none", size |-> NoSize]} ELSE {})
    ELSE {IF snap \in {"long", "short"} THEN [dir |-> snap, size |-> SnapshotSize]
          ELSE [dir |-> "none", size |-> NoSize]}

\* fault: a request for the direction that is already open is not refused
ManualDecideNeverRefuses(cd, intended) ==
    IF cd = "none" \/ cd = intended THEN "open" ELSE "switch"

\* a same-direction request is refused, an opposite one closes first
ManualDecide(cd, intended) ==
    IF cd = "none" THEN "open" ELSE IF cd = intended THEN "refuse" ELSE "switch"

ManualOpen(r) ==
    /\ Arrives(r)
    /\ \E token \in {"LONG", "SHORT", "BUY", "SELL"}, sym \in Symbols,
          price \in Prices \cup {NoPrice}, snap \in FetchResults :
          LET dir == IF token \in {"LONG", "BUY"} THEN "long" ELSE "short"
          IN IF price = NoPrice
             THEN /\ loc' = [loc EXCEPT ![r].kind = "manual"]
                  /\ Finish(r, "error400", <<>>)
             ELSE \E b \in ManualBelieved(snap, sym) :
                  /\ loc' = [loc EXCEPT ![r] = [@ EXCEPT !.kind = "manual", !.dir = dir,
                                !.symbol = sym, !.tid = r, !.price = price,
                                !.cur_dir = b.dir, !.cur_size = b.size]]
                  /\ CASE ManualDecide(b.dir, dir) = "refuse" -> Finish(r, "error400", <<>>)
                       [] ManualDecide(b.dir, dir) = "switch" -> Goto(r, "m_fetch", <<>>)
                       [] OTHER -> Goto(r, "m_place", <<>>)
    /\ UNCHANGED <<dryRun, credentials, backend, trades>>

\* the placed row the manual open is going to close
ManualFetch(r) ==
    /\ pc[r] = "m_fetch"
    /\ IF PlacedIdx(loc[r].symbol) = {}
       THEN /\ loc' = loc
            /\ Goto(r, "m_place", <<>>)
       ELSE \E i \in PlacedIdx(loc[r].symbol) :
            /\ loc' = [loc EXCEPT ![r].rows = <<trades[i].id>>, ![r].fetched = <<trades[i].id>>]
            /\ Goto(r, "m_close", <<>>)
    /\ UNCHANGED <<dryRun, credentials, backend, trades>>

ManualClose(r) ==
    /\ pc[r] = "m_close"
    /\ \E a1 \in CloseResults, a2 \in CloseResults, snap \in FetchResults,
          tick \in Tickers :
          LET id == Head(loc[r].rows)
              ok == CloseOk(dryRun, a1, a2, snap)
          IN /\ trades' = CloseExisting(trades, id, dryRun, a1, a2, snap, tick.price)
             /\ loc' = [loc EXCEPT ![r].rows = <<>>,
                                   ![r].failed = IF ok THEN @ ELSE @ \cup {id}]
             /\ IF ok THEN Goto(r, "m_place", CloseEvents(dryRun, credentials, a1, a2, snap, tick) \o <<"db_closed">>)
                ELSE Finish(r, "error400", CloseEvents(dryRun, credentials, a1, a2, snap, tick))
    /\ UNCHANGED <<dryRun, credentials, backend>>

ManualPlace(r) ==
    /\ pc[r] = "m_place"
    /\ \E answers \in AnswerSeqs :
          LET res == PlaceDemoOrder(dryRun, credentials, answers)
          IN /\ loc' = [loc EXCEPT ![r].reply = res.reply, ![r].asked = res.asked]
             /\ Goto(r, "m_insert", <<"gw_open">> \o Repeat("submit_open", Len(res.asked)))
    /\ UNCHANGED <<dryRun, credentials, backend, trades>>

\* the record of a manual open is written after the order, without a key
ManualInsert(r) ==
    /\ pc[r] = "m_insert"
    /\ \E size \in Sizes :
       LET good == IsSuccess(loc[r].reply)
       IN /\ trades' = Append(trades, [NewRow(loc[r].tid, loc[r].dir, loc[r].symbol,
                                         IF good THEN "placed" ELSE "error", NoKey, NoPine, size)
                                  EXCEPT !.response = StoredResponse(ResponseKind(loc[r].reply, loc[r].asked))])
          /\ Finish(r, IF good THEN "ok" ELSE "error500",
                    <<"insert", IF good THEN "bc_placed" ELSE "bc_error">>)
    /\ loc' = [loc EXCEPT ![r].reply = NoReply, ![r].asked = <<>>]
    /\ UNCHANGED <<dryRun, credentials, backend>>

\* -------------------------------------------------- POST /close/{trade_id}
AdminClose(r) ==
    /\ Arrives(r)
    /\ \E id \in Ids, a1 \in CloseResults, a2 \in CloseResults, snap \in FetchResults,
          tick \in Tickers :
          /\ Row(id).status = "placed"
          /\ loc' = [loc EXCEPT ![r].kind = "close", ![r].tid = id]
          /\ trades' = CloseExisting(trades, id, dryRun, a1, a2, snap, tick.price)
          /\ IF CloseOk(dryRun, a1, a2, snap)
             THEN Finish(r, "ok", CloseEvents(dryRun, credentials, a1, a2, snap, tick) \o <<"db_closed", "bc_closed">>)
             ELSE Finish(r, "error500", CloseEvents(dryRun, credentials, a1, a2, snap, tick))
    /\ UNCHANGED <<dryRun, credentials, backend>>

\* ------------------------------------------------------------------ Next
Next ==
    \E r \in Requests :
        \/ WebhookRejectSignal(r)
        \/ WebhookPriceUnavailable(r)
        \/ WebhookExit(r)
        \/ WebhookLogOnly(r)
        \/ WebhookSignal(r)
        \/ WebhookEntry(r)
        \/ RotateFetch(r)
        \/ RotateCloseRow(r)
        \/ PineCheck(r)
        \/ Reserve(r)
        \/ Place(r)
        \/ UpdateStatus(r)
        \/ HandlerCancelled(r)
        \/ ManualOpen(r)
        \/ ManualFetch(r)
        \/ ManualClose(r)
        \/ ManualPlace(r)
        \/ ManualInsert(r)
        \/ AdminClose(r)

Spec == Init /\ [][Next]_vars

\* ------------------------------------------------ dashboards on /ws
\* websocket_endpoint: accept, then append to connected_websockets
WsConnect ==
    /\ Len(clients) < MaxClients
    /\ clients' = Append(clients, TRUE)
    /\ UNCHANGED <<dryRun, credentials, backend, trades, pc, loc, hist, outcome, lookup, casts, sizing>>

\* the peer goes away and the server has not noticed yet: the next send_text
\* to this socket raises
WsBreak ==
    /\ \E i \in DOMAIN clients :
          /\ clients[i]
          /\ clients' = [clients EXCEPT ![i] = FALSE]
    /\ UNCHANGED <<dryRun, credentials, backend, trades, pc, loc, hist, outcome, lookup, casts, sizing>>

\* websocket_endpoint, finally: the client is removed from the list
WsDisconnect ==
    /\ \E i \in DOMAIN clients :
          clients' = SubSeq(clients, 1, i - 1) \o SubSeq(clients, i + 1, Len(clients))
    /\ UNCHANGED <<dryRun, credentials, backend, trades, pc, loc, hist, outcome, lookup, casts, sizing>>

\* one request at a time, with dashboards that connect and go away
Quiet(r) == \A q \in Requests \ {r} : pc[q] \in {"idle", "done"} /\ (q < r => pc[q] = "done")

PushNext ==
    \/ \E r \in Requests :
          /\ Quiet(r)
          /\ \/ WebhookRejectSignal(r)
             \/ WebhookExit(r)
             \/ WebhookLogOnly(r)
             \/ WebhookSignal(r)
             \/ WebhookEntry(r)
             \/ RotateFetch(r)
             \/ RotateCloseRow(r)
             \/ PineCheck(r)
             \/ Reserve(r)
             \/ Place(r)
             \/ UpdateStatus(r)
             \/ ManualOpen(r)
             \/ ManualFetch(r)
             \/ ManualClose(r)
             \/ ManualPlace(r)
             \/ ManualInsert(r)
             \/ AdminClose(r)
          /\ loc'[r].pine = NoPine
    \/ WsConnect
    \/ WsBreak
    \/ WsDisconnect

PushSpec == Init /\ [][PushNext]_vars

\* ------------------------------------- broadcast, one send_text at a time
InList(list, s) == \E k \in DOMAIN list : list[k] = s
Without(list, s) == SelectSeq(list, LAMBDA c : c # s)

\* websocket_endpoint: accept, then append to connected_websockets
CastConnect ==
    /\ \E s \in Sockets :
          /\ casts.peer[s] = "new"
          /\ casts' = [casts EXCEPT !.connected_websockets = Append(@, s),
                                    !.peer[s] = "up"]
    /\ UNCHANGED <<dryRun, credentials, backend, trades, pc, loc, hist, outcome, clients, lookup, sizing>>

\* the peer goes away and the server has not noticed yet: a send_text to this
\* socket raises from now on
CastBreak ==
    /\ \E s \in Sockets :
          /\ casts.peer[s] = "up"
          /\ casts' = [casts EXCEPT !.peer[s] = "broken",
                                    !.whole = [c \in Casts |-> @[c] \ {s}]]
    /\ UNCHANGED <<dryRun, credentials, backend, trades, pc, loc, hist, outcome, clients, lookup, sizing>>

\* websocket_endpoint, finally: connected_websockets[:] = the other clients
CastDisconnect ==
    /\ \E s \in Sockets :
          /\ casts.peer[s] \in {"up", "broken"}
          /\ casts' = [casts EXCEPT !.peer[s] = "closed",
                                    !.connected_websockets = Without(@, s),
                                    !.whole = [c \in Casts |-> @[c] \ {s}]]
    /\ UNCHANGED <<dryRun, credentials, backend, trades, pc, loc, hist, outcome, clients, lookup, sizing>>

\* broadcast from one await to the next: the for loop takes the element at
\* its position in the list as it is now and awaits its send_text, or it is
\* past the end of the list and connected_websockets[:] = living is run
CastAdvance(cs, c, living) ==
    LET list == cs.connected_websockets
        i == cs.call[c].i
    IN IF i < Len(list)
       THEN [cs EXCEPT !.call[c] = [stage |-> "sending", i |-> i + 1,
                                    living |-> living, client |-> list[i + 1]]]
       ELSE [cs EXCEPT !.call[c] = [stage |-> "done", i |-> 0, living |-> <<>>, client |-> 0],
                       !.connected_websockets = living]

\* a call of broadcast begins: living = [], the loop starts
CastBegin ==
    /\ \E c \in Casts :
          /\ casts.call[c].stage = "idle"
          /\ c > 1 => casts.call[c - 1].stage # "idle"
          /\ casts' = CastAdvance([casts EXCEPT !.whole[c] =
                                      {s \in Sockets : InList(casts.connected_websockets, s)
                                                       /\ casts.peer[s] = "up"}],
                                  c, <<>>)
    /\ UNCHANGED <<dryRun, credentials, backend, trades, pc, loc, hist, outcome, clients, lookup, sizing>>

\* the awaited send_text returns or raises; the client is appended to living
\* when it returned, and the loop goes on
CastSent ==
    /\ \E c \in Casts :
          /\ casts.call[c].stage = "sending"
          /\ LET client == casts.call[c].client
                 ok == casts.peer[client] = "up"
             IN casts' = CastAdvance([casts EXCEPT !.sent[c] = IF ok THEN Append(@, client) ELSE @],
                                     c,
                                     IF ok THEN Append(casts.call[c].living, client)
                                     ELSE casts.call[c].living)
    /\ UNCHANGED <<dryRun, credentials, backend, trades, pc, loc, hist, outcome, clients, lookup, sizing>>

CastNext == CastConnect \/ CastBreak \/ CastDisconnect \/ CastBegin \/ CastSent

CastSpec == Init /\ [][CastNext]_vars

\* ------------------------------------------------ the size of an opening
\* payloads with a quantity or a notional below and above the minimum
SizeQuantities == {NoSize, 0, 2}
SizeNotionals == {NoSize, 10, 100}

\* webhook ENTRY and manual open: computed_size from the payload's size or
\* size_usd; the manual open always has a price when it gets here
SizeCompute ==
    /\ sizing.stage = "idle"
    /\ \E path \in {"webhook", "open_position"}, qty \in SizeQuantities,
          usd \in SizeNotionals, ref \in {NoPrice} \cup Prices :
          /\ path = "open_position" => ref # NoPrice
          /\ sizing' = [sizing EXCEPT !.stage = "computed", !.path = path, !.qty = qty,
                                      !.usd = usd, !.ref = ref,
                                      !.computed = ComputedSize(qty, usd, ref)]
    /\ UNCHANGED <<dryRun, credentials, backend, trades, pc, loc, hist, outcome, clients, lookup, casts>>

\* place_demo_order(size=computed_size): the size in the order's body; the
\* webhook has written its record by then, the manual open has not
SizeSubmit ==
    /\ sizing.order = NoSize
    /\ \/ sizing.path = "webhook" /\ sizing.stage = "recorded"
       \/ sizing.path = "open_position" /\ sizing.stage = "computed"
    /\ sizing' = [sizing EXCEPT !.stage = "submitted", !.order = OrderSize(sizing.computed)]
    /\ UNCHANGED <<dryRun, credentials, backend, trades, pc, loc, hist, outcome, clients, lookup, casts>>

\* the insert of the record, with size = resolve_trade_dimensions(...)[0]
SizeRecord ==
    /\ sizing.record = NoSize
    /\ \/ sizing.path = "webhook" /\ sizing.stage = "computed"
       \/ sizing.path = "open_position" /\ sizing.stage = "submitted"
    /\ sizing' = [sizing EXCEPT !.stage = "recorded", !.record = RecordSize(sizing.computed)]
    /\ UNCHANGED <<dryRun, credentials, backend, trades, pc, loc, hist, outcome, clients, lookup, casts>>

SizeNext == SizeCompute \/ SizeSubmit \/ SizeRecord

SizeSpec == Init /\ [][SizeNext]_vars

\* ------------------------------------------ get_market_price_with_retries
\* attempts=3 and backoff=0.5 are the defaults, no caller passes another
\* value; the time slept is counted in units of backoff
Attempts == 3

\* what fetch_market_price returns: None when no ticker gave a price, else
\* float(p) of the first ticker whose price field is truthy; the tickers
\* send the price as a string, and the string "0.00" is truthy
FetchedPrices == {PriceNone, 0} \cup Prices

\* Python truth of a float or None
Truthy(p) == p # PriceNone /\ p # 0

\* one turn of the loop: fetch, return a price that is truthy and not 0, else
\* remember it in last and sleep backoff * 2 ** i
LookupAttempt ==
    /\ lookup.stage = "loop"
    /\ lookup.i < Attempts
    /\ \E p \in FetchedPrices :
          lookup' = IF Truthy(p) /\ p # 0
                    THEN [lookup EXCEPT !.stage = "returned", !.result = p,
                                        !.fetched = Append(@, p)]
                    ELSE [lookup EXCEPT !.last = p, !.i = @ + 1, !.slept = @ + 2 ^ lookup.i,
                                        !.fetched = Append(@, p)]
    /\ UNCHANGED <<dryRun, credentials, backend, trades, pc, loc, hist, outcome, clients, casts, sizing>>

\* the loop is over: return last
LookupExhausted ==
    /\ lookup.stage = "loop"
    /\ lookup.i = Attempts
    /\ lookup' = [lookup EXCEPT !.stage = "returned", !.result = lookup.last]
    /\ UNCHANGED <<dryRun, credentials, backend, trades, pc, loc, hist, outcome, clients, casts, sizing>>

\* the callers and their test of the value returned: the webhook's sizing
\* (if p and p != 0), the webhook's price for the record (if fetched), the
\* manual open (if not price), and the closes, which
\* test "is not None" before they store the value as the exit price
Callers == {"webhook_size", "webhook_price", "open_position", "close_existing",
            "rotation_close", "close_position"}
TakenAsPrice(caller, p) ==
    IF caller \in {"close_existing", "rotation_close", "close_position"}
    THEN p # PriceNone
    ELSE Truthy(p)

LookupUsed ==
    /\ lookup.stage = "returned"
    /\ \E c \in Callers :
          lookup' = [lookup EXCEPT !.stage = "used", !.caller = c,
                                   !.taken = TakenAsPrice(c, lookup.result)]
    /\ UNCHANGED <<dryRun, credentials, backend, trades, pc, loc, hist, outcome, clients, casts, sizing>>

LookupNext == LookupAttempt \/ LookupExhausted \/ LookupUsed

LookupSpec == Init /\ [][LookupNext]_vars

\* --------------------------------------- signals handled one after another
\* a sequence of ENTRY alerts that carry a size or a notional and no Pine
\* trade index, each one answered or cut off before the next arrives, in an
\* environment where no order is refused and no database call fails
Signals == 1..NumSignals

SignalsInit ==
    /\ dryRun \in BOOLEAN
    /\ credentials \in (IF dryRun THEN {FALSE} ELSE BOOLEAN)
    /\ backend \in {"sqlite", "postgresql"}
    /\ trades = <<>>
    /\ pc = [r \in Signals |-> "idle"]
    /\ loc = [r \in Signals |-> InitLoc]
    /\ hist = [r \in Signals |-> <<>>]
    /\ outcome = [r \in Signals |-> "none"]
    /\ clients = <<>>
    /\ lookup = InitLookup
    /\ casts = InitCasts
    /\ sizing = InitSizing

Alone(r) == \A q \in Signals \ {r} : pc[q] \in {"idle", "done"} /\ (q < r => pc[q] = "done")

SignalsNext ==
    \E r \in Signals :
        /\ Alone(r)
        /\ \/ WebhookEntry(r)
           \/ RotateFetch(r)
           \/ RotateCloseRow(r)
           \/ PineCheck(r)
           \/ Reserve(r)
           \/ Place(r)
           \/ UpdateStatus(r)
           \/ HandlerCancelled(r)
        /\ outcome'[r] \in {"none", "ok", "ignored", "cancelled"}
        /\ loc'[r].pine = NoPine
        /\ pc'[r] \in {"place", "update"} => loc'[r].size # NoSize

SignalsSpec == SignalsInit /\ [][SignalsNext]_vars

\* ================================================================ claims
Has(r, e) == \E i \in DOMAIN hist[r] : hist[r][i] = e
Count(r, e) == Cardinality({i \in DOMAIN hist[r] : hist[r][i] = e})
Before(r, e1, e2) == \A i, j \in DOMAIN hist[r] : hist[r][i] = e1 /\ hist[r][j] = e2 => i < j
IsPrefix(s, t) == Len(s) <= Len(t) /\ \A i \in DOMAIN s : s[i] = t[i]
GatewayOps(r) == SelectSeq(hist[r], LAMBDA e : e \in {"gw_close", "gw_open"})
Entry(r) == loc[r].kind = "entry"
StatusCount(ids, st) == Cardinality({i \in DOMAIN trades : trades[i].id \in ids /\ trades[i].status = st})

\* C1: at every instant every instrument has at most one record in status
\* placed, whatever webhook ENTRY signals, manual opens and closes ran.
C1_AtMostOnePlacedPerInstrument ==
    \A s \in Symbols : Cardinality(PlacedIdx(s)) <= 1

\* C2: two ENTRY signals for the same instrument and direction, handled
\* concurrently from no open position and both answered without a fault, leave
\* exactly one placed record and one ignored record, never two placed.
C2_DuplicateSignalOnePlacedOneIgnored ==
    \A r1, r2 \in Requests :
        ( /\ r1 < r2 /\ Entry(r1) /\ Entry(r2)
          /\ loc[r1].symbol = loc[r2].symbol /\ loc[r1].dir = loc[r2].dir
          /\ loc[r1].cur_dir = "none" /\ loc[r2].cur_dir = "none"
          /\ loc[r1].pine = NoPine /\ loc[r2].pine = NoPine
          /\ loc[r2].overlapped
          /\ pc[r1] = "done" /\ pc[r2] = "done"
          /\ outcome[r1] \in {"ok", "ignored"} /\ outcome[r2] \in {"ok", "ignored"} )
        => /\ StatusCount({loc[r1].tid, loc[r2].tid}, "placed") = 1
           /\ StatusCount(Ids, "ignored") = 1

\* C3: no two records hold the same non-null reservation key.
C3_OneReservationPerKey ==
    \A i, j \in DOMAIN trades :
        i # j /\ trades[i].reservation_key # NoKey
            => trades[i].reservation_key # trades[j].reservation_key

\* C4: once the handling of a signal that reserved has ended, its record has
\* no reservation key and is no longer in status received.
C4_ReservationReleased ==
    \A r \in Requests :
        pc[r] = "done" /\ Has(r, "reserve")
            => /\ Row(loc[r].tid).reservation_key = NoKey
               /\ Row(loc[r].tid).status # "received"

\* C5: the gateway operations of an ENTRY signal are those of the decision
\* table: none for a same-direction position, open alone for no position,
\* close then open for an opposite position, and nothing else.
TableOps(cd, cs, intended) ==
    IF cd = "none" THEN <<"gw_open">>
    ELSE IF cd = intended THEN <<>>
    ELSE <<"gw_close", "gw_open">>

C5_DecisionTable ==
    \A r \in Requests :
        Entry(r) => IsPrefix(GatewayOps(r), TableOps(loc[r].cur_dir, loc[r].cur_size, loc[r].dir))

\* C6: when a close of a rotation has failed, the webhook ends with the
\* failure surfaced, having submitted no open and inserted no record, and the
\* failed close left the ledger as it was (the old record keeps its status).
C6_RotationAbortState ==
    \A r \in Requests :
        Entry(r) /\ loc[r].failed # {} /\ loc[r].rows = <<>>
            => /\ pc[r] = "done" /\ outcome[r] = "close_failed"
               /\ Has(r, "bc_error")
               /\ ~Has(r, "gw_open") /\ ~Has(r, "reserve")

C6_FailedCloseKeepsLedger ==
    \A r \in Requests : Entry(r) /\ loc'[r].failed # loc[r].failed => trades' = trades

C6_RotationAbort == []C6_RotationAbortState /\ [][C6_FailedCloseKeepsLedger]_vars

C6_Witness ==
    \E r \in Requests :
        /\ Entry(r) /\ outcome[r] = "close_failed"
        /\ \E id \in loc[r].failed : Row(id).status = "placed"

\* C7: when the open of a rotation is submitted, every record the rotation
\* set out to close is closed, with exit price and realized PnL when its size
\* allows to derive them.
C7_ClosedBeforeOpen ==
    \A r \in Requests :
        Entry(r) /\ Has(r, "gw_open")
            => \A k \in DOMAIN loc[r].fetched :
                  LET row == Row(loc[r].fetched[k])
                  IN /\ row.status = "closed"
                     /\ row.size # 0 => row.exit_price # NoPrice /\ row.realized_pnl

C7_Witness ==
    \E r \in Requests : Entry(r) /\ Has(r, "gw_open") /\ loc[r].fetched # <<>>

\* C8 as stated: every close of a rotation comes after the reservation.
C8_ReserveBeforeClose ==
    \A r \in Requests : Entry(r) => Before(r, "reserve", "gw_close")

\* C8 amended: the closes of a rotation come first, then the reservation,
\* then the open, then the release; the open is never submitted without the
\* reservation and the release never precedes the open.
C8_CloseReserveOpenRelease ==
    \A r \in Requests :
        Entry(r) => /\ Before(r, "gw_close", "reserve")
                    /\ Before(r, "reserve", "gw_open")
                    /\ Before(r, "gw_open", "release")
                    /\ Has(r, "gw_open") => Has(r, "reserve")
                    /\ Has(r, "release") => Has(r, "gw_open")
                    /\ Count(r, "reserve") <= 1 /\ Count(r, "gw_open") <= 1
                    /\ Count(r, "release") <= 1

C8_Witness ==
    \E r \in Requests :
        Entry(r) /\ Has(r, "gw_close") /\ Has(r, "reserve") /\ Has(r, "gw_open") /\ Has(r, "release")

\* C9: a signal answered as ignored has submitted no close order and no
\* open order to the exchange.
C9_IgnoredSubmitsNothing ==
    \A r \in Requests :
        outcome[r] = "ignored" => ~Has(r, "submit_close") /\ ~Has(r, "submit_open")

\* C10 as stated: a same-direction ENTRY signal leaves a record with status
\* ignored, publishes an ignored notification, submits nothing and is no error.
SameDirection(r) ==
    Entry(r) /\ loc[r].cur_dir = loc[r].dir /\ loc[r].cur_size # NoSize /\ loc[r].cur_size > 0

C10_SameDirectionRecordsIgnored ==
    \A r \in Requests :
        SameDirection(r)
            => /\ StatusCount(Ids, "ignored") >= 1
               /\ outcome[r] = "ignored" /\ hist[r] = <<"bc_ignored">>

\* C10 amended: a same-direction ENTRY signal is answered as ignored at once,
\* publishes an ignored notification and does nothing else: no record is
\* inserted or changed, nothing goes to the gateway, no error is reported.
C10_SameDirectionState ==
    \A r \in Requests :
        SameDirection(r) => pc[r] = "done" /\ outcome[r] = "ignored" /\ hist[r] = <<"bc_ignored">>

C10_SameDirectionKeepsLedger ==
    \A r \in Requests : pc[r] = "idle" /\ SameDirection(r)' => trades' = trades

C10_SameDirectionIgnored == []C10_SameDirectionState /\ [][C10_SameDirectionKeepsLedger]_vars

C10_Witness ==
    \E r \in Requests : SameDirection(r) /\ outcome[r] = "ignored" /\ trades # <<>>

\* C11: a signal without a recognizable direction token submits nothing to the
\* exchange and leaves exactly one record, of status ignored, and no record of
\* another status.
Unresolvable(r) ==
    \/ loc[r].kind = "no_direction"
    \/ loc[r].kind = "unknown_signal" /\ loc[r].token \notin {"BUY", "SELL"}

C11_UnresolvableOneIgnoredRecord ==
    \A r \in Requests :
        Unresolvable(r) /\ pc[r] = "done"
            => /\ GatewayOps(r) = <<>>
               /\ StatusCount({r}, "ignored") = 1
               /\ \A i \in DOMAIN trades : trades[i].id = r => trades[i].status = "ignored"

\* C12: a webhook signal whose token is BUY (SELL) is given the
\* direction long (short) and handled as the same signal with LONG (SHORT).
C12_SynonymFolding ==
    \A r \in Requests :
        /\ loc[r].token = "BUY" => loc[r].kind = "entry" /\ loc[r].dir = "long"
        /\ loc[r].token = "SELL" => loc[r].kind = "entry" /\ loc[r].dir = "short"

\* C13: when the webhook comes to reserve while another record holds the key
\* of its (instrument, direction), it ends as ignored without an open order
\* and without touching the ledger.
KeyHeld(r) ==
    \E i \in DOMAIN trades : trades[i].reservation_key = <<loc[r].symbol, loc[r].dir>>

C13_ConflictStep ==
    \A r \in Requests :
        pc[r] = "reserve" /\ pc'[r] # "reserve" /\ KeyHeld(r)
            => /\ pc'[r] = "done" /\ outcome'[r] = "ignored"
               /\ ~Has(r, "gw_open")' /\ Has(r, "bc_ignored")'
               /\ trades' = trades

C13_ConflictIgnored == [][C13_ConflictStep]_vars

\* C14: whenever the exchange gives no snapshot or a snapshot of size zero,
\* the position the webhook believes is the one of the most recent placed
\* record of the instrument, and no position when there is no such record.
C14_OracleFallsBackToLedger ==
    \A sym \in Symbols, snap \in {"none", "zero"} : Believed(snap, sym) = DbBelieved(sym)

\* C15: for a snapshot with a side and a size above zero the believed position
\* is the snapshot's direction and size, whatever placed records the ledger
\* holds.
C15_SnapshotNotOverridden ==
    \A sym \in Symbols, snap \in {"long", "short"} :
        Believed(snap, sym) = [dir |-> snap, size |-> SnapshotSize]

\* a signal was decided on a snapshot that contradicts the ledger
C15_Witness ==
    \E r \in Requests :
        /\ Entry(r) /\ pc[r] = "done" /\ outcome[r] = "ignored"
        /\ loc[r].cur_dir = "short" /\ loc[r].cur_size > 0
        /\ DbBelieved(loc[r].symbol).dir = "long"

\* C16: a record becomes placed only on a reply with transport status 200 and
\* a provider code that is present and says success.
BecomesPlaced(r) ==
    /\ pc[r] \in {"update", "m_insert"} /\ pc'[r] = "done"
    /\ \E i \in DOMAIN trades' : trades'[i].id = loc[r].tid /\ trades'[i].status = "placed"

C16_PlacedStep ==
    \A r \in Requests : BecomesPlaced(r) => loc[r].reply = <<200, "00000">>

C16_SuccessNeedsProviderCode == [][C16_PlacedStep]_vars

\* C17: a live placement asks the candidates in order; every answer before the
\* last one asked was a 404 or a transport error, an answer of another status
\* is returned as it is, and when the last candidate also answered 404 or
\* failed the reply is 502; the status a handler writes for a 502 is error.
Skipped(a) == a = TransportError \/ a[1] = 404

C17_GatewayState ==
    \A r \in Requests :
        loc[r].reply # NoReply /\ ~dryRun /\ credentials
            => LET a == loc[r].asked
               IN /\ Len(a) \in 1..NumCandidates
                  /\ \A i \in 1..(Len(a) - 1) : Skipped(a[i])
                  /\ IF Skipped(a[Len(a)])
                     THEN Len(a) = NumCandidates /\ loc[r].reply = <<502, "">>
                     ELSE loc[r].reply = a[Len(a)]
                  /\ Count(r, "submit_open") = Len(a)

C17_FailedPlacementStep ==
    \A r \in Requests :
        pc[r] \in {"update", "m_insert"} /\ pc'[r] = "done" /\ loc[r].reply[1] = 502
            => /\ outcome'[r] # "ok"
               /\ \A i \in DOMAIN trades' : trades'[i].id = loc[r].tid
                     => /\ trades'[i].status # "placed"
                        /\ (Has(r, "release")' \/ Has(r, "insert")') => trades'[i].status = "error"

C17_CandidatesInOrder == []C17_GatewayState /\ [][C17_FailedPlacementStep]_vars

C17_Witness ==
    \E r \in Requests :
        /\ pc[r] = "update" /\ loc[r].asked # <<>> /\ loc[r].asked[1][1] = 404
        /\ loc[r].reply = <<502, "">>

\* C18: in dry-run no place, close, position query or order cleanup sends a
\* request to the exchange, and every place call answers with the simulated
\* success (status 200, code 00000, order id DRY-...).
ExchangeCalls == {"submit_open", "submit_close", "ask_ticker"}

C18_DryRunNoExchangeCall ==
    dryRun => \A r \in Requests :
                 /\ \A e \in ExchangeCalls : ~Has(r, e)
                 /\ pc[r] \in {"update", "m_insert"}
                       => loc[r].reply = <<200, "00000">> /\ loc[r].asked = <<>>

\* C19: on the same ledger, dry-run and a live run against an exchange that
\* accepts every order and reports the positions it was sent make the same
\* Trade Record updates: the same decision for the next signal (ignore and
\* the TypeError both write nothing), and the same record after a close.
IdealSnapshot(sym) == IF PlacedIdx(sym) = {} THEN "none" ELSE DbBelieved(sym).dir

WritesNothing(decision) == decision \in {"ignore", "typeerror"}

C19_DryRunSameUpdatesAsLive ==
    \A sym \in Symbols :
        /\ \A intended \in {"long", "short"} :
              LET d == Believed("none", sym)
                  l == Believed(IdealSnapshot(sym), sym)
                  inDry == Decide(d.dir, d.size, intended)
                  inLive == Decide(l.dir, l.size, intended)
              IN inDry = inLive \/ (WritesNothing(inDry) /\ WritesNothing(inLive))
        /\ \A i \in PlacedIdx(sym), p \in Prices :
              CloseExisting(trades, trades[i].id, TRUE, "ok", "ok", "none", p)
                  = CloseExisting(trades, trades[i].id, FALSE, "ok", "ok", "none", p)

\* C20: live without credentials a placement fails at once: the reply is the
\* 400 of the credentials test, no request is sent to the exchange, the status
\* written for the record is error, and no record is ever placed.
MissingCredentials == ~dryRun /\ ~credentials

C20_NoCredentialsState ==
    MissingCredentials
        => /\ \A i \in DOMAIN trades : trades[i].status # "placed"
           /\ \A r \in Requests :
                 /\ \A e \in ExchangeCalls : ~Has(r, e)
                 /\ pc[r] \in {"update", "m_insert"}
                       => loc[r].reply = <<400, "">> /\ loc[r].asked = <<>>

C20_NoCredentialsStep ==
    \A r \in Requests :
        MissingCredentials /\ pc[r] \in {"update", "m_insert"} /\ pc'[r] = "done"
            => /\ outcome'[r] # "ok"
               /\ \A i \in DOMAIN trades' :
                     trades'[i].id = loc[r].tid /\ (Has(r, "release")' \/ Has(r, "insert")')
                         => trades'[i].status = "error"

C20_MissingCredentialsFail == []C20_NoCredentialsState /\ [][C20_NoCredentialsStep]_vars

C20_Witness ==
    \E r \in Requests :
        /\ MissingCredentials /\ Entry(r) /\ pc[r] = "done" /\ outcome[r] = "rejected"
        /\ Has(r, "gw_open")
        /\ \E i \in DOMAIN trades : trades[i].id = loc[r].tid /\ trades[i].status = "error"

\* C21: the order size is the payload's quantity, else notional / reference
\* price; when no size could be resolved no order is placed with a zero or
\* default size; when no price can be resolved the signal fails with 502,
\* writes no record and submits nothing.
C21_SizingResolved ==
    \A r \in Requests :
        /\ Entry(r) /\ Has(r, "gw_open")
              => loc[r].size # NoSize /\ loc[r].order_size = loc[r].size
        /\ loc[r].kind = "no_price"
              => /\ outcome[r] = "error502" /\ hist[r] = <<>>
                 /\ \A i \in DOMAIN trades : trades[i].id # r

\* C22: three signals one after another, on an exchange that accepts the
\* orders and reports the positions it was sent: LONG with notional 100 at
\* price 50000 and no position gives one record, received and then placed,
\* of size 0.002; the SHORT that follows leaves the LONG record closed with
\* an exit price and exactly one new placed SHORT record; the third signal,
\* SHORT again, is ignored.
EntryOf(r, dir, believed) ==
    /\ loc[r].kind = "entry" /\ loc[r].dir = dir /\ loc[r].cur_dir = believed
    /\ believed # "none" => loc[r].cur_size > 0

LongShortShort ==
    /\ EntryOf(1, "long", "none") /\ loc[1].size = ComputedSize(NoSize, 100, 50000)
    /\ EntryOf(2, "short", "long") /\ loc[2].size = loc[1].size
    /\ EntryOf(3, "short", "short")
    /\ outcome[1] = "ok" /\ outcome[2] = "ok" /\ pc[3] = "done"
    /\ \A q \in Signals : q > 3 => pc[q] = "idle"

C22_EndToEnd ==
    /\ ComputedSize(NoSize, 100, 50000) = 2
    /\ \A r \in Signals :
          loc[r].kind = "entry" /\ pc[r] \in {"place", "update"}
              => \E i \in DOMAIN trades :
                    /\ trades[i].id = loc[r].tid /\ trades[i].status = "received"
                    /\ trades[i].size = RecordSize(loc[r].size)
    /\ LongShortShort
          => /\ outcome[3] = "ignored"
             /\ Len(trades) = 2
             /\ trades[1].signal = "LONG" /\ trades[1].size = 2
             /\ trades[1].status = "closed" /\ trades[1].exit_price # NoPrice
             /\ trades[2].signal = "SHORT" /\ trades[2].status = "placed"

C22_Witness == LongShortShort /\ Len(trades) = 2 /\ outcome[3] = "ignored"

\* C23: a handler that stops after its rotation closed the old record and
\* before the open is submitted leaves the old record closed and no new placed
\* record, and the same signal sent again afterwards opens the new direction:
\* it is not ignored, it submits no close and it does not fail on the close.
StoppedInRotation(r) ==
    /\ Entry(r) /\ outcome[r] = "cancelled"
    /\ Has(r, "db_closed") /\ ~Has(r, "gw_open")

RetryOf(r2, r1) ==
    /\ Entry(r2) /\ r1 < r2 /\ ~loc[r2].overlapped /\ pc[r2] = "done"
    /\ loc[r2].dir = loc[r1].dir /\ loc[r2].symbol = loc[r1].symbol

C23_RotationRecoverable ==
    \A r1, r2 \in Signals :
        StoppedInRotation(r1)
            => /\ \A i \in DOMAIN trades :
                     /\ (\E k \in DOMAIN loc[r1].fetched : loc[r1].fetched[k] = trades[i].id)
                           => trades[i].status = "closed"
                     /\ trades[i].id = loc[r1].tid => trades[i].status # "placed"
               /\ RetryOf(r2, r1) /\ dryRun => loc[r2].cur_dir = "none"
               /\ RetryOf(r2, r1) /\ loc[r2].cur_dir = "none" /\ loc[r2].pine = loc[r1].pine
                     => outcome[r2] \notin {"ignored", "close_failed"} /\ ~Has(r2, "gw_close")

\* C24: the status of a record moves only from received or signal to placed,
\* error or ignored and from placed to closed; a record that is closed, error
\* or ignored keeps its status.
Lifecycle(from, to) ==
    \/ from = to
    \/ from \in {"received", "signal"} /\ to \in {"placed", "error", "ignored"}
    \/ from = "placed" /\ to = "closed"

C24_LifecycleStep ==
    \A i \in DOMAIN trades : Lifecycle(trades[i].status, trades'[i].status)

C24_StatusLifecycle == [][C24_LifecycleStep]_vars

\* the request r did e in this step
Did(r, e) == \E i \in DOMAIN hist'[r] : i > Len(hist[r]) /\ hist'[r][i] = e

\* C25: a notification push that fails never rolls back or prevents a ledger
\* mutation: in every step that writes the ledger and then broadcasts to a
\* socket whose send fails, the ledger holds the write (the received record
\* and the placement go on, the final status is the one the exchange's answer
\* calls for, the closed record is closed, the logged record is inserted) and
\* the request does not end in an error that the push caused.
C25_PushFailedStep ==
    \A r \in Requests :
        Did(r, "push_failed") =>
            /\ outcome'[r] = "error500"
                  => Did(r, "db_error") \/ (pc[r] = "m_insert" /\ ~IsSuccess(loc[r].reply))
            /\ Did(r, "bc_ignored") => outcome'[r] = "ignored" /\ trades' = trades
            /\ Did(r, "reserve")
                  => /\ pc'[r] = "place"
                     /\ Len(trades') = Len(trades) + 1
                     /\ trades'[Len(trades')].status = "received"
            /\ Did(r, "release") /\ ~Did(r, "db_error")
                  => /\ trades' = StatusUpdate(trades, loc[r].tid,
                                               IF IsSuccess(loc[r].reply) THEN "placed" ELSE "error",
                                               ResponseKind(loc[r].reply, loc[r].asked))
                     /\ outcome'[r] = IF IsSuccess(loc[r].reply) THEN "ok" ELSE "rejected"
            /\ Did(r, "db_closed") /\ pc[r] = "rot_close"
                  => \A i \in DOMAIN trades' :
                        trades'[i].id = Head(loc[r].rows) => trades'[i].status = "closed"
            /\ Did(r, "db_closed") /\ pc[r] = "idle"
                  => /\ outcome'[r] = "ok"
                     /\ \A i \in DOMAIN trades' :
                           trades'[i].id = loc'[r].tid => trades'[i].status = "closed"
            /\ Did(r, "insert") => Len(trades') = Len(trades) + 1

C25_PushFailureKeepsLedger == [][C25_PushFailedStep]_vars

C25_Witness ==
    \E r \in Requests :
        /\ pc[r] = "done" /\ outcome[r] = "ok" /\ Entry(r)
        /\ Len(hist[r]) >= 2
        /\ hist[r][Len(hist[r])] = "push_failed"
        /\ hist[r][Len(hist[r]) - 1] = "bc_placed"
        /\ \E i \in DOMAIN trades : trades[i].id = loc[r].tid /\ trades[i].status = "placed"
        /\ clients = <<>>

\* construct_bitget_payload: the fields of the request body; the close
\* payload is built in the close_position branch, with holdSide from the
\* extra fields; reduce_only is read in the other branch only
ConstructBitgetPayload(close_position, reduce_only) ==
    IF close_position
    THEN {"symbol", "productType", "marginCoin", "holdSide"}
    ELSE {"symbol", "productType", "orderType", "size", "marginCoin", "marginMode",
          "clientOid", "side", "positionSide"}
         \cup (IF reduce_only THEN {"reduceOnly"} ELSE {})

\* the body sent by a submission recorded in the history
BodyOf(e) == ConstructBitgetPayload(e = "submit_close", FALSE)

\* C26: every order submission sent to the exchange, open and close alike,
\* carries a client order identifier (that is distinct from the identifier of
\* every other submission attempt).
C26_EverySubmissionHasClientOid ==
    \A r \in Requests : \A i \in DOMAIN hist[r] :
        hist[r][i] \in {"submit_open", "submit_close"} => "clientOid" \in BodyOf(hist[r][i])

\* the exchange answered the open of r itself, and refused it
ExchangeRejected(r) ==
    /\ loc[r].asked # <<>>
    /\ loc[r].reply = loc[r].asked[Len(loc[r].asked)]
    /\ ~IsSuccess(loc[r].reply)

\* C27: when the exchange rejects an open order, the status update writes
\* error with the provider's response text as it was received, and the open
\* was submitted once for the signal: a rejected placement is not retried.
C27_RejectedStep ==
    \A r \in Requests :
        pc[r] = "update" /\ ExchangeRejected(r) /\ Did(r, "release") /\ ~Did(r, "db_error")
            => /\ outcome'[r] = "rejected"
               /\ \A i \in DOMAIN trades' : trades'[i].id = loc[r].tid
                     => trades'[i].status = "error" /\ trades'[i].response = "provider"
               /\ Count(r, "submit_open")' = 1 /\ Count(r, "gw_open")' = 1

C27_RejectedState ==
    \A r \in Requests : Entry(r) => Count(r, "submit_open") <= 1 /\ Count(r, "gw_open") <= 1

C28_LookupBoundedAndUnavailable ==
    /\ Len(lookup.fetched) <= Attempts
    /\ lookup.slept <= 2 ^ Attempts - 1
    /\ lookup.stage = "used"
          => IF lookup.result \in Prices THEN lookup.taken ELSE ~lookup.taken

\* C29: after a successful close in a live rotation the cleanup of the
\* instrument's resting orders is attempted, a cancel request is submitted to
\* the exchange, and a failure of the cleanup leaves the rotation as it is:
\* the closed record stays closed and the rotation goes on to the open.
C29_CleanupAttempted ==
    \A r \in Requests :
        /\ Entry(r) /\ ~dryRun /\ credentials
        /\ Has(r, "db_closed") /\ Has(r, "gw_cancel")
        => /\ Has(r, "submit_cancel")
           /\ Has(r, "cancel_failed") /\ loc[r].failed = {} => outcome[r] # "close_failed"

\* the webhook alerts whose event is not ENTRY
NotEntryKinds == {"log_only", "no_direction", "signal_dup", "exit", "not_entry"}
OrderEvents == {"gw_open", "gw_close", "submit_open", "submit_close", "reserve"}

\* the ledger gained one record of status signal, without a reservation
LoggedSignal ==
    /\ Len(trades') = Len(trades) + 1
    /\ SubSeq(trades', 1, Len(trades)) = trades
    /\ trades'[Len(trades')].status = "signal"
    /\ trades'[Len(trades')].reservation_key = NoKey

C30_NotEntryState ==
    \A r \in Requests :
        loc[r].kind \in NotEntryKinds
            => /\ pc[r] = "done"
               /\ outcome[r] \in {"ok", "ignored"}
               /\ \A i \in DOMAIN hist[r] : hist[r][i] \notin OrderEvents

C30_NotEntryLogsStep ==
    \A r \in Requests :
        pc[r] = "idle" /\ loc'[r].kind \in NotEntryKinds
            => trades' = trades \/ LoggedSignal

C30_NotEntryLogsOrExitsStep ==
    \A r \in Requests :
        pc[r] = "idle" /\ loc'[r].kind \in NotEntryKinds
            => \/ trades' = trades
               \/ LoggedSignal
               \/ loc'[r].kind = "exit" /\ trades' = SetStatus(trades, loc'[r].tid, "closed")

\* C30: only webhook alerts whose event is ENTRY reach order placement or
\* rotation: an alert whose event is SIGNAL, ENTRY_FALLBACK, absent or
\* anything else never submits a close or open order and never acquires a
\* reservation; it is at most logged as a record with status signal.
C30_OnlyEntryExecutes == []C30_NotEntryState /\ [][C30_NotEntryLogsStep]_vars

\* C30, amended: ... it is at most logged as a record with status signal, or,
\* when its event is EXIT, it marks the record it names as closed.
C30_OnlyEntryExecutesExitCloses == []C30_NotEntryState /\ [][C30_NotEntryLogsOrExitsStep]_vars

C30_Witness ==
    \E r, q \in Requests :
        /\ loc[r].kind = "log_only" /\ pc[r] = "done" /\ outcome[r] = "ok"
        /\ loc[q].kind = "exit" /\ loc[q].tid = loc[r].tid /\ pc[q] = "done"
        /\ \E i \in DOMAIN trades : trades[i].id = loc[r].tid /\ trades[i].status = "closed"
        /\ hist[r] = <<"insert", "bc_signal">>
        /\ hist[q] = <<"db_closed", "bc_closed">>

\* what a request writes to the ledger
LedgerWrites == {"insert", "reserve", "release", "db_closed"}

\* C31: a same-direction duplicate ENTRY signal (believed direction equals
\* intended, size > 0) leaves the ledger unchanged: its handling inserts,
\* updates and deletes no record.
C31_DuplicateState ==
    \A r \in Requests :
        SameDirection(r)
            => /\ \A i \in DOMAIN hist[r] : hist[r][i] \notin LedgerWrites
               /\ \A i \in DOMAIN trades : trades[i].id # loc[r].tid

C31_DuplicateStep ==
    \A r \in Requests :
        SameDirection(r)' /\ hist'[r] # hist[r]
            => Len(trades') = Len(trades) /\ \A i \in DOMAIN trades : trades'[i] = trades[i]

C31_DuplicateLeavesLedger == []C31_DuplicateState /\ [][C31_DuplicateStep]_vars

C31_Witness ==
    \E r \in Requests :
        /\ SameDirection(r) /\ pc[r] = "done" /\ Has(r, "bc_ignored")
        /\ Len(trades) = 1
        /\ trades[1].status = "placed" /\ trades[1].id # loc[r].tid
        /\ trades[1].symbol = loc[r].symbol /\ DirOfSignal(trades[1].signal) = loc[r].dir

\* C32: on every path that opens a position, the webhook ENTRY and the manual
\* open, the record of the attempt is in the ledger before the open order is
\* handed to the gateway: at no instant has a request placed its order
\* without a record of its own.
C32_RecordBeforeOrder ==
    \A r \in Requests :
        Has(r, "gw_open") => \E i \in DOMAIN trades : trades[i].id = loc[r].tid

\* C33: the insert of the received record is answered as ignored for a
\* concurrent reservation only when another record holds the same
\* (instrument, direction) reservation key at that time; an insert that fails
\* for another cause, such as a trade_id that is already in the ledger, is
\* not reported as a reservation conflict.
C33_ConflictStep ==
    \A r \in Requests :
        pc[r] = "reserve" /\ outcome'[r] = "ignored"
            => \E i \in DOMAIN trades :
                  trades[i].reservation_key = <<loc[r].symbol, loc[r].dir>>

C33_ConflictOnlyWhenKeyHeld == [][C33_ConflictStep]_vars

\* the submission at position i of the history of r is the first one of its
\* close (reduce_flag True), the one after it is the retry (reduce_flag False)
FirstOfClose(r, i) == hist[r][i] = "submit_close" /\ hist[r][i - 1] = "gw_close"
RetryOfClose(r, i) == hist[r][i] = "submit_close" /\ hist[r][i - 1] = "submit_close"

\* C34: live close protocol: the close order is first submitted with
\* reduceOnly set, and is submitted once more, without reduceOnly, only
\* after the first attempt failed; at most two submissions are made per
\* close.
C34_LiveCloseProtocol ==
    \A r \in Requests : \A i \in DOMAIN hist[r] :
        /\ FirstOfClose(r, i) => "reduceOnly" \in ConstructBitgetPayload(TRUE, TRUE)
        /\ RetryOfClose(r, i)
              => /\ "reduceOnly" \notin ConstructBitgetPayload(TRUE, FALSE)
                 /\ FirstOfClose(r, i - 1)

\* the record that the close of this step is about
ClosedId(r) == IF pc[r] = "idle" THEN loc'[r].tid ELSE Head(loc[r].rows)

\* C35: when every close submission is rejected, the close reports success
\* only if a fresh exchange snapshot is available and shows no remaining
\* size, and the record is then marked closed; if the snapshot is unavailable
\* or shows a remaining position the close reports failure and the record
\* is left as it was.
C35_FallbackStep ==
    \A r \in Requests :
        /\ Did(r, "snap_flat")
              => /\ Did(r, "db_closed")
                 /\ outcome'[r] \notin {"error500", "error400", "close_failed"}
                 /\ ClosedId(r) \notin loc'[r].failed
                 /\ \A i \in DOMAIN trades' :
                       trades'[i].id = ClosedId(r)
                           => trades'[i].status = "closed" /\ trades'[i].reservation_key = NoKey
        /\ Did(r, "snap_not_flat")
              => /\ ~Did(r, "db_closed")
                 /\ trades' = trades
                 /\ IF pc[r] = "idle" THEN outcome'[r] = "error500"
                    ELSE ClosedId(r) \in loc'[r].failed

C35_SnapshotFallback == [][C35_FallbackStep]_vars

C35_Witness ==
    \E r \in Requests :
        /\ loc[r].kind = "close" /\ pc[r] = "done" /\ outcome[r] = "ok"
        /\ Has(r, "submit_close") /\ Has(r, "snap_flat")
        /\ \E i \in DOMAIN trades :
              /\ trades[i].id = loc[r].tid /\ trades[i].status = "closed"
              /\ trades[i].exit_price = NoPrice

Manual(r) == loc[r].kind = "manual" /\ loc[r].dir # "none"

\* C36: a manual open for the direction of the believed open position is
\* refused with 400, without an exchange order and without a ledger change;
\* a manual open for the opposite direction first closes the placed record,
\* and when that close fails it answers 400 without submitting the open
\* order and without inserting a record.
C36_ManualState ==
    \A r \in Requests :
        Manual(r)
            => /\ loc[r].cur_dir = loc[r].dir
                     => pc[r] = "done" /\ outcome[r] = "error400" /\ hist[r] = <<>>
               /\ loc[r].failed # {}
                     => /\ pc[r] = "done" /\ outcome[r] = "error400"
                        /\ ~Has(r, "gw_open") /\ ~Has(r, "insert") /\ ~Has(r, "db_closed")
               /\ loc[r].fetched # <<>> /\ Has(r, "gw_open")
                     => /\ Has(r, "gw_close") /\ Has(r, "db_closed")
                        /\ Before(r, "gw_close", "gw_open")
                        /\ Before(r, "db_closed", "gw_open")

C36_ManualStep ==
    \A r \in Requests :
        Manual(r)' /\ hist'[r] # hist[r]
        /\ (loc'[r].cur_dir = loc'[r].dir \/ loc'[r].failed # {})
            => trades' = trades

C36_ManualOpenGuard == []C36_ManualState /\ [][C36_ManualStep]_vars

C36_Witness ==
    \E q \in Requests :
        /\ loc[q].cur_dir \notin {"none", loc[q].dir}
        /\ Manual(q) /\ loc[q].failed # {} /\ outcome[q] = "error400" /\ Has(q, "gw_close")
        /\ \E i \in DOMAIN trades : trades[i].id \in loc[q].failed /\ trades[i].status = "placed"

\* an EXIT alert, whether or not its payload names a signal
IsExit(r) == loc[r].kind = "exit" \/ (loc[r].kind = "unknown_signal" /\ loc[r].token = "EXIT")

\* C37: an EXIT event with a trade_id sets exactly that record to closed
\* with a null reservation key, submits nothing to the exchange and touches
\* no other record; an EXIT event without a trade_id leaves the ledger as it is.
C37_ExitStep ==
    \A r \in Requests :
        pc[r] = "idle" /\ IsExit(r)'
            => /\ \A k \in DOMAIN hist'[r] : hist'[r][k] \notin {"gw_close", "gw_open", "gw_cancel"}
               /\ trades' = IF loc'[r].tid = NoId THEN trades
                             ELSE SetStatus(trades, loc'[r].tid, "closed")

C37_ExitClosesExactlyThatRecord == [][C37_ExitStep]_vars

\* C38: a record has a reservation key exactly while its status is
\* received: the key is set only by the insert that creates a received
\* record, and every update that moves a record out of received clears it.
C38_KeyIffReceived ==
    \A i \in DOMAIN trades :
        trades[i].reservation_key # NoKey <=> trades[i].status = "received"

C38_KeyStep ==
    /\ Len(trades') >= Len(trades)
    /\ \A i \in DOMAIN trades' :
          IF i \in DOMAIN trades
          THEN /\ trades'[i].reservation_key \in {NoKey, trades[i].reservation_key}
               /\ trades[i].status = "received" /\ trades'[i].status # "received"
                     => trades'[i].reservation_key = NoKey
          ELSE trades'[i].reservation_key # NoKey => trades'[i].status = "received"

C38_ReservationKeyLifetime == []C38_KeyIffReceived /\ [][C38_KeyStep]_vars

C38_Witness ==
    \E i, j \in DOMAIN trades : \E r \in Requests :
        /\ trades[i].status = "received" /\ trades[i].reservation_key # NoKey
        /\ trades[j].status \in {"placed", "error"} /\ trades[j].reservation_key = NoKey
        /\ Has(r, "reserve") /\ loc[r].tid = trades[j].id /\ pc[r] = "done"

Deliveries(c, s) == Cardinality({k \in DOMAIN casts.sent[c] : casts.sent[c][k] = s})

\* C39: under any interleaving of broadcast calls with connects and
\* disconnects, a connected client whose sends do not fail is never removed
\* from the subscriber list by broadcast, and every client that was connected
\* for the whole duration of a broadcast is sent that event exactly once.
C39_SentOnce ==
    \A c \in Casts :
        casts.call[c].stage = "done"
            => \A s \in casts.whole[c] : Deliveries(c, s) = 1

C39_HealthyStays ==
    casts'.call # casts.call
        => \A s \in Sockets :
              casts.peer[s] = "up" /\ InList(casts.connected_websockets, s)
                  => InList(casts'.connected_websockets, s)

C39_BroadcastUnderInterleaving == []C39_SentOnce /\ [][C39_HealthyStays]_vars

SizeWasComputed == RawSize(sizing.qty, sizing.usd, sizing.ref) # NoSize
SizeBelowMinimum == SizeWasComputed /\ RawSize(sizing.qty, sizing.usd, sizing.ref) < MinSize

\* C40: whenever a size is computed for an ENTRY or a manual open, from an
\* explicit quantity or from notional/price, and it is below 0.001, the order
\* is submitted with size 0.001, and the size stored on the record equals
\* the size submitted to the exchange.
C40_MinimumSizeClamp ==
    /\ sizing.order # NoSize /\ SizeBelowMinimum => sizing.order = MinSize
    /\ sizing.order # NoSize /\ sizing.record # NoSize /\ SizeWasComputed
          => sizing.record = sizing.order

C40_Witness ==
    /\ SizeBelowMinimum
    /\ sizing.qty = NoSize
    /\ sizing.path = "open_position"
    /\ sizing.order = MinSize /\ sizing.record = MinSize

====
